---------------------------- MODULE Spec2Model ----------------------------
(***************************************************************************)
(* Model of extract.py: extraction of the "Item 1A. Risk Factors" section  *)
(* of a 10-K HTML filing, its normalisation, sentence splitting and        *)
(* serialisation, and the batch driver.                                    *)
(*                                                                         *)
(* A text is a sequence of characters.  A character is a one-character     *)
(* string; the non-ASCII characters are named by their code point:         *)
(* "U+00A0" (non-breaking space), "U+2022", "U+00B7", "U+25AA" (the bullet *)
(* glyphs of split_into_sentences).                                        *)
(***************************************************************************)
EXTENDS Integers, Sequences, FiniteSets, TLC

VARIABLES
    \* text pipeline: clean_text, split_into_sentences, format_output
    raw,           \* the input text
    text,          \* the text being processed (item1a_text in process_file)
    prev,          \* the text before the last clean_text call
    cleans,        \* number of clean_text calls so far
    sentences,     \* result of split_into_sentences
    output_text,   \* result of format_output
    tpc,           \* "idle" | "text" | "split" | "formatted"
    \* one document: extract_item1a_content, process_file
    soup,          \* the document tree, its tags in document order
    start_element, \* result of find_item1a_start (0: None)
    end_element,   \* result of find_next_major_section (0: None)
    content_parts, \* extract_item1a_content's list, each part by its nodes
    report,        \* what process_file printed
    dpc,           \* "idle" | "parsed" | "extracted" | "done"
    \* batch driver: main
    input_dir_exists,
    html_files,    \* the discovered documents, each by what happens to it
    next_file,     \* index of the next document of the for loop
    success_count,
    attempts,      \* per document, the number of process_file calls
    written,       \* the documents an output file was written for
    summary,       \* the success count the final summary printed (-1: none)
    bpc            \* "idle" | "start" | "loop" | "returned" | "crashed" | "done"

textVars == <<raw, text, prev, cleans, sentences, output_text, tpc>>
docVars == <<soup, start_element, end_element, content_parts, report, dpc>>
batchVars == <<input_dir_exists, html_files, next_file, success_count,
               attempts, written, summary, bpc>>
vars == <<textVars, docVars, batchVars>>

--------------------------------------------------------------------------
(* Bounds of the model *)

\* number of atoms an input text of the text pipeline is made of
MaxAtoms == 4

\* number of tags of a document tree
MaxNodes == 3

\* number of documents of a batch
MaxFiles == 3

--------------------------------------------------------------------------
(* Characters *)

NBSP == "U+00A0"

\* \s restricted to ASCII whitespace
ReSpaceAsciiOnly(c) == c \in {" ", "\t", "\n", "\r"}
\* \s of a Python 3 str pattern: Unicode whitespace, U+00A0 included
ReSpace(c) == c \in {" ", "\t", "\n", "\r", NBSP}

\* str.strip() removes the characters for which str.isspace() holds
StrSpace(c) == c \in {" ", "\t", "\n", "\r", NBSP}

UpperSeq == <<"A", "B", "C", "D", "E", "F", "G", "H", "I", "J", "K", "L", "M",
              "N", "O", "P", "Q", "R", "S", "T", "U", "V", "W", "X", "Y", "Z">>
LowerSeq == <<"a", "b", "c", "d", "e", "f", "g", "h", "i", "j", "k", "l", "m",
              "n", "o", "p", "q", "r", "s", "t", "u", "v", "w", "x", "y", "z">>

\* [A-Z]
UpperAZ == {UpperSeq[i] : i \in 1..26}
LowerAZ == {LowerSeq[i] : i \in 1..26}
\* [0-9]
Digits == {"0", "1", "2", "3", "4", "5", "6", "7", "8", "9"}

ToLower == [c \in UpperAZ |-> LowerSeq[CHOOSE i \in 1..26 : UpperSeq[i] = c]]

\* str.lower()
Lower(s) == [i \in 1..Len(s) |-> IF s[i] \in UpperAZ THEN ToLower[s[i]] ELSE s[i]]

\* [.!?]
Terminal == {".", "!", "?"}

\* [bullet glyphs] of split_into_sentences
BulletGlyphs == {"U+2022", "U+00B7", "U+25AA"}

\* '|||BULLET|||'
BulletMarker == <<"|", "|", "|", "B", "U", "L", "L", "E", "T", "|", "|", "|">>

--------------------------------------------------------------------------
(* str and re helpers *)

Chars(s) == {s[i] : i \in 1..Len(s)}

\* the concatenation of a sequence of texts
RECURSIVE Flatten(_)
Flatten(seqs) ==
    IF seqs = <<>> THEN <<>>
    ELSE IF Len(seqs) = 1 THEN seqs[1]
    ELSE LET half == Len(seqs) \div 2
         IN  Flatten(SubSeq(seqs, 1, half)) \o Flatten(SubSeq(seqs, half + 1, Len(seqs)))

\* sep.join(items)
Join(items, sep) ==
    Flatten([k \in 1..(2 * Len(items) - 1) |->
                IF k % 2 = 1 THEN items[(k + 1) \div 2] ELSE sep])

RECURSIVE LStrip(_)
LStrip(s) ==
    IF s = <<>> THEN <<>>
    ELSE IF StrSpace(Head(s)) THEN LStrip(Tail(s)) ELSE s

RECURSIVE RStrip(_)
RStrip(s) ==
    IF s = <<>> THEN <<>>
    ELSE IF StrSpace(s[Len(s)]) THEN RStrip(SubSeq(s, 1, Len(s) - 1)) ELSE s

\* str.strip()
Strip(s) == RStrip(LStrip(s))

\* str.replace(old, new) for one-character old and new
ReplaceChar(s, old, new) == [i \in 1..Len(s) |-> IF s[i] = old THEN new ELSE s[i]]

\* does sub occur in s at index i
HasAt(s, i, sub) ==
    /\ i + Len(sub) - 1 <= Len(s)
    /\ \A k \in 1..Len(sub) : s[i + k - 1] = sub[k]

\* sub in s
Contains(s, sub) == \E i \in 1..(Len(s) - Len(sub) + 1) : HasAt(s, i, sub)

\* the end of the whitespace run at index i: the first index from i on that
\* holds no whitespace (Len(s) + 1 if there is none)
RECURSIVE SkipReSpace(_, _)
SkipReSpace(s, i) ==
    IF i <= Len(s) /\ ReSpace(s[i]) THEN SkipReSpace(s, i + 1) ELSE i

\* re.sub(r'\s+', ' ', s): of every whitespace run its first character is
\* kept, as a space
SubWs(s) ==
    LET kept == SelectSeq([i \in 1..Len(s) |-> i],
                          LAMBDA i : ~ReSpace(s[i]) \/ i = 1 \/ ~ReSpace(s[i - 1]))
    IN  [k \in 1..Len(kept) |-> IF ReSpace(s[kept[k]]) THEN " " ELSE s[kept[k]]]

--------------------------------------------------------------------------
(* clean_text *)

clean_text(t) == Strip(ReplaceChar(SubWs(t), NBSP, " "))

--------------------------------------------------------------------------
(* split_into_sentences *)

\* re.sub(r'[bullet glyphs]', '|||BULLET|||', s)
ReplaceBullets(s) ==
    Flatten([i \in 1..Len(s) |->
                IF s[i] \in BulletGlyphs THEN BulletMarker ELSE <<s[i]>>])

\* str.split(sep) of s from index i on: the parts between the occurrences
\* of sep, found from left to right
RECURSIVE StrSplitFrom(_, _, _)
StrSplitFrom(s, sep, i) ==
    IF \E m \in i..Len(s) : HasAt(s, m, sep)
    THEN LET m == CHOOSE m \in i..Len(s) :
                    /\ HasAt(s, m, sep)
                    /\ \A j \in i..(m - 1) : ~HasAt(s, j, sep)
         IN  <<SubSeq(s, i, m - 1)>> \o StrSplitFrom(s, sep, m + Len(sep))
    ELSE <<SubSeq(s, i, Len(s))>>

StrSplit(s, sep) == StrSplitFrom(s, sep, 1)

\* (?<=[.!?]) at index i: the character before i is a terminal mark
AfterTerminal(s, i) == i > 1 /\ s[i - 1] \in Terminal

\* the lookahead accepting whatever follows the whitespace
UpperNextAnyCase(s, j) == j <= Len(s)
\* (?=[A-Z]) at index j
UpperNext(s, j) == j <= Len(s) /\ s[j] \in UpperAZ

\* first alternative, (?<=[.!?])\s+(?=[A-Z]), matches at index i
MatchSpaceUpper(s, i) ==
    /\ AfterTerminal(s, i)
    /\ i <= Len(s) /\ ReSpace(s[i])
    /\ UpperNext(s, SkipReSpace(s, i))

\* second alternative, (?<=[.!?])$, matches (emptily) at index i: $ is the
\* end of the string or the place before a final newline
MatchEnd(s, i) ==
    /\ AfterTerminal(s, i)
    /\ \/ i = Len(s) + 1
       \/ i = Len(s) /\ s[i] = "\n"

\* re.split(r'(?<=[.!?])\s+(?=[A-Z])|(?<=[.!?])$', s): the pieces from index
\* begin on, the next match being looked for from index scan on.  After the
\* empty match before a final newline the newline starts the next piece.
RECURSIVE ReSplitFrom(_, _, _)
ReSplitFrom(s, begin, scan) ==
    IF \E m \in scan..(Len(s) + 1) : MatchSpaceUpper(s, m) \/ MatchEnd(s, m)
    THEN LET m == CHOOSE m \in scan..(Len(s) + 1) :
                    /\ MatchSpaceUpper(s, m) \/ MatchEnd(s, m)
                    /\ \A j \in scan..(m - 1) : ~(MatchSpaceUpper(s, j) \/ MatchEnd(s, j))
             piece == SubSeq(s, begin, m - 1)
         IN  IF MatchSpaceUpper(s, m)
             THEN <<piece>> \o ReSplitFrom(s, SkipReSpace(s, m), SkipReSpace(s, m))
             ELSE IF m > Len(s)
                  THEN <<piece, <<>>>>
                  ELSE <<piece>> \o ReSplitFrom(s, m, m + 1)
    ELSE <<SubSeq(s, begin, Len(s))>>

ReSplit(s) == ReSplitFrom(s, 1, 1)

\* "Skip very short fragments": len(sent) > 3
MinSentenceLen == 3

\* the inner loop without sent.strip()
KeepSentencesUnstripped(pieces) ==
    SelectSeq(pieces, LAMBDA p : p # <<>> /\ Len(p) > MinSentenceLen)
\* the inner loop: strip every piece, keep the non-empty ones longer than 3
KeepSentences(pieces) ==
    SelectSeq([k \in 1..Len(pieces) |-> Strip(pieces[k])],
              LAMBDA p : p # <<>> /\ Len(p) > MinSentenceLen)

\* the outer loop over the bullet parts: "if not part.strip(): continue"
SentencesOfParts(parts) ==
    Flatten([k \in 1..Len(parts) |->
                IF Strip(parts[k]) = <<>> THEN <<>>
                ELSE KeepSentences(ReSplit(parts[k]))])

split_into_sentences(t) ==
    SentencesOfParts(StrSplit(ReplaceBullets(t), BulletMarker))

--------------------------------------------------------------------------
(* format_output *)

\* s.replace("'", "\\'")
EscapeQuotes(s) ==
    Flatten([i \in 1..Len(s) |-> IF s[i] = "'" THEN <<"\\", "'">> ELSE <<s[i]>>])

format_output(sents) ==
    <<"[", "'">>
    \o Join([k \in 1..Len(sents) |-> EscapeQuotes(sents[k])], <<"'", ",", " ", "'">>)
    \o <<"'", "]">>

--------------------------------------------------------------------------
(* The document tree (BeautifulSoup).  soup is the sequence of the tags in  *)
(* document order (pre-order); a tag holds its name, the index of its       *)
(* parent tag (0: the BeautifulSoup object itself) and at most one string   *)
(* of its own, which stands before its child tags.  The strings are those   *)
(* of a small vocabulary, named by an identifier.                           *)

\* "ITEM 1A. RISK FACTORS"
Text_HEAD ==
    <<"I", "T", "E", "M", " ", "1", "A", ".", " ", "R", "I", "S", "K", " ",
      "F", "A", "C", "T", "O", "R", "S">>

\* "For details, see:"
Text_SEE ==
    <<"F", "o", "r", " ", "d", "e", "t", "a", "i", "l", "s", ",", " ", "s",
      "e", "e", ":">>

\* "Our costs may rise."
Text_RISK ==
    <<"O", "u", "r", " ", "c", "o", "s", "t", "s", " ", "m", "a", "y", " ",
      "r", "i", "s", "e", ".">>

\* "ITEM 1B. UNRESOLVED"
Text_E1B ==
    <<"I", "T", "E", "M", " ", "1", "B", ".", " ", "U", "N", "R", "E", "S",
      "O", "L", "V", "E", "D">>

\* "Item 2"
Text_E2 ==
    <<"I", "t", "e", "m", " ", "2">>

\* "A. B. C. D. E."
Text_LIST ==
    <<"A", ".", " ", "B", ".", " ", "C", ".", " ", "D", ".", " ", "E", ".">>

Vocabulary == {"HEAD", "SEE", "RISK", "E1B", "E2", "LIST"}

TextOf ==
    [v \in Vocabulary |->
        CASE v = "HEAD" -> Text_HEAD
          [] v = "SEE" -> Text_SEE
          [] v = "RISK" -> Text_RISK
          [] v = "E1B" -> Text_E1B
          [] v = "E2" -> Text_E2
          [] v = "LIST" -> Text_LIST]
\* the cross-reference phrases of score_candidate
reference_indicators ==
    { <<"d", "e", "s", "c", "r", "i", "b", "e", "d", " ", "i", "n">>,
      <<"s", "e", "e">>,
      <<"r", "e", "f", "e", "r", " ", "t", "o">>,
      <<"f", "a", "c", "t", "o", "r", "s", " ", "i", "n">>,
      <<"i", "n", "c", "l", "u", "d", "e", "d", " ", "i", "n">>,
      <<"d", "i", "s", "c", "u", "s", "s", "e", "d", " ", "i", "n">>,
      <<"c", "o", "n", "t", "a", "i", "n", "e", "d", " ", "i", "n">>,
      <<"s", "e", "t", " ", "f", "o", "r", "t", "h", " ", "i", "n">>,
      <<"p", "r", "e", "s", "e", "n", "t", "e", "d", " ", "i", "n">>,
      <<"d", "i", "s", "c", "l", "o", "s", "e", "d", " ", "i", "n">>,
      <<"o", "t", "h", "e", "r", " ", "f", "a", "c", "t", "o", "r", "s">>,
      <<"a", "d", "d", "i", "t", "i", "o", "n", "a", "l", " ", "i", "n", "f", "o", "r", "m", "a", "t", "i", "o", "n">>,
      <<"f", "o", "r", " ", "m", "o", "r", "e", " ", "i", "n", "f", "o", "r", "m", "a", "t", "i", "o", "n">>,
      <<"a", "s", " ", "d", "e", "s", "c", "r", "i", "b", "e", "d", " ", "i", "n">>,
      <<"f", "u", "r", "t", "h", "e", "r", " ", "d", "i", "s", "c", "u", "s", "s", "e", "d", " ", "i", "n">>,
      <<"m", "o", "r", "e", " ", "f", "u", "l", "l", "y", " ", "d", "e", "s", "c", "r", "i", "b", "e", "d">>,
      <<"c", "o", "n", "j", "u", "n", "c", "t", "i", "o", "n", " ", "w", "i", "t", "h">>,
      <<"f", "o", "r", "w", "a", "r", "d", "-", "l", "o", "o", "k", "i", "n", "g">>,
      <<"a", "n", "n", "u", "a", "l", " ", "r", "e", "p", "o", "r", "t", " ", "o", "n", " ", "f", "o", "r", "m">> }

\* the risk keywords of score_candidate
risk_keywords ==
    { <<"r", "i", "s", "k">>,
      <<"u", "n", "c", "e", "r", "t", "a", "i", "n">>,
      <<"c", "o", "u", "l", "d">>,
      <<"m", "a", "y">>,
      <<"m", "i", "g", "h", "t">>,
      <<"a", "d", "v", "e", "r", "s", "e">>,
      <<"f", "a", "c", "t", "o", "r">>,
      <<"s", "u", "b", "j", "e", "c", "t", " ", "t", "o">>,
      <<"d", "e", "p", "e", "n", "d">>,
      <<"f", "a", "i", "l">> }

\* 'Table of Contents'
TableOfContents ==
    <<"T", "a", "b", "l", "e", " ", "o", "f", " ", "C", "o", "n", "t", "e",
      "n", "t", "s">>

\* the texts a tag can have: the strings of its subtree, in document order
TokenSeqs == UNION {[1..k -> Vocabulary] : k \in 0..MaxNodes}

\* the function f as an explicit table, computed once for all its arguments
Table(f) == f @@ <<>>

\* get_text(strip=True): the stripped strings joined without separator
StripText == Table([ts \in TokenSeqs |-> Flatten([k \in 1..Len(ts) |-> TextOf[ts[k]]])])

\* get_text(separator=' ', strip=True)
SepText == Table([ts \in TokenSeqs |-> Join([k \in 1..Len(ts) |-> TextOf[ts[k]]], <<" ">>)])

--------------------------------------------------------------------------
(* Regular expressions.  A pattern is a sequence of elements:               *)
(*   "ws"   \s*          "lit"  a character, compared ignoring case         *)
(*   "opt"  c?           "nondigit"  [^0-9]        "end"  $                 *)
(*   "wb"   \b                                                              *)
(* Every pattern below is matched correctly by taking \s* and c? greedily:  *)
(* the element that follows one of them never matches what it takes.        *)

Ws == <<[k |-> "ws", c |-> ""]>>
Lit(s) == [i \in 1..Len(s) |-> [k |-> "lit", c |-> s[i]]]
Opt(c) == <<[k |-> "opt", c |-> c]>>
NonDigit == <<[k |-> "nondigit", c |-> ""]>>
End == <<[k |-> "end", c |-> ""]>>
WordBoundary == <<[k |-> "wb", c |-> ""]>>

\* \w
WordChar(s, i) ==
    /\ i >= 1 /\ i <= Len(s)
    /\ s[i] \in UpperAZ \cup LowerAZ \cup Digits \cup {"_"}

LowerChar(c) == IF c \in UpperAZ THEN ToLower[c] ELSE c

\* the elements of pat from the p-th on match s at index i (re.IGNORECASE)
RECURSIVE MatchAt(_, _, _, _)
MatchAt(pat, s, i, p) ==
    IF p > Len(pat) THEN TRUE
    ELSE CASE pat[p].k = "ws" -> MatchAt(pat, s, SkipReSpace(s, i), p + 1)
           [] pat[p].k = "lit" ->
                /\ i <= Len(s)
                /\ LowerChar(s[i]) = LowerChar(pat[p].c)
                /\ MatchAt(pat, s, i + 1, p + 1)
           [] pat[p].k = "opt" ->
                IF i <= Len(s) /\ s[i] = pat[p].c
                THEN MatchAt(pat, s, i + 1, p + 1)
                ELSE MatchAt(pat, s, i, p + 1)
           [] pat[p].k = "nondigit" ->
                /\ i <= Len(s)
                /\ s[i] \notin Digits
                /\ MatchAt(pat, s, i + 1, p + 1)
           [] pat[p].k = "end" ->
                /\ i = Len(s) + 1 \/ (i = Len(s) /\ s[i] = "\n")
                /\ MatchAt(pat, s, i, p + 1)
           [] pat[p].k = "wb" ->
                /\ WordChar(s, i - 1) # WordChar(s, i)
                /\ MatchAt(pat, s, i, p + 1)

\* re.match(pat, s, re.IGNORECASE); the same for re.search of a pattern
\* that starts with ^
ReMatch(pat, s) == MatchAt(pat, s, 1, 1)

\* re.search(pat, s, re.IGNORECASE)
ReSearch(pat, s) == \E i \in 1..(Len(s) + 1) : MatchAt(pat, s, i, 1)

\* r'^\s*ITEM\s*1A\.?\s*RISK\s*FACTORS\.?\s*$' and the same pattern spelled
\* 'Item 1A ... Risk Factors': under re.IGNORECASE the two are one
Item1aPattern ==
    Ws \o Lit(<<"I", "T", "E", "M">>) \o Ws \o Lit(<<"1", "A">>) \o Opt(".") \o Ws
    \o Lit(<<"R", "I", "S", "K">>) \o Ws \o Lit(<<"F", "A", "C", "T", "O", "R", "S">>)
    \o Opt(".") \o Ws \o End

item1a_patterns == <<Item1aPattern, Item1aPattern>>

\* r'^\s*ITEM\s*1B' (and r'^\s*Item\s*1B')
Item1bStart == Ws \o Lit(<<"I", "T", "E", "M">>) \o Ws \o Lit(<<"1", "B">>)

\* r'^\s*ITEM\s*2[^0-9]' (and r'^\s*Item\s*2[^0-9]')
Item2Start == Ws \o Lit(<<"I", "T", "E", "M">>) \o Ws \o Lit(<<"2">>) \o NonDigit

next_major_patterns == <<Item1bStart, Item1bStart, Item2Start, Item2Start>>

\* r'\bITEM\s*1B\b', r'\bItem\s*1B\b', r'\bITEM\s*2\b', r'\bItem\s*2\b'
next_item_patterns ==
    LET one_b == WordBoundary \o Lit(<<"I", "T", "E", "M">>) \o Ws
                 \o Lit(<<"1", "B">>) \o WordBoundary
        two == WordBoundary \o Lit(<<"I", "T", "E", "M">>) \o Ws
               \o Lit(<<"2">>) \o WordBoundary
    IN  <<one_b, one_b, two, two>>

\* r'^\s*\d+\s*$': a page number
IsPageNumber(s) ==
    LET first == SkipReSpace(s, 1)
        digits == {j \in first..Len(s) : \A k \in first..j : s[k] \in Digits}
        last == first + Cardinality(digits)
    IN  /\ digits # {}
        /\ LET rest == SkipReSpace(s, last)
           IN  rest = Len(s) + 1 \/ (rest = Len(s) /\ s[rest] = "\n")

--------------------------------------------------------------------------
(* What the code asks of a tag's text, tabulated over the texts a tag can   *)
(* have.                                                                    *)

\* len(text)
TextLen == Table([ts \in TokenSeqs |-> Len(StripText[ts])])

\* the text matches one of the Item 1A heading patterns
MatchesItem1a ==
    Table([ts \in TokenSeqs |->
        \E n \in 1..Len(item1a_patterns) : ReMatch(item1a_patterns[n], StripText[ts])])

\* any(indicator in text.lower() for indicator in reference_indicators)
HasReferenceIndicator ==
    Table([ts \in TokenSeqs |->
        \E ind \in reference_indicators : Contains(Lower(StripText[ts]), ind)])

\* the risk keywords found in text.lower()
RiskKeywordsIn ==
    Table([ts \in TokenSeqs |->
        {kw \in risk_keywords : Contains(Lower(StripText[ts]), kw)}])

\* one of next_item_patterns is found in text.lower()
HasNextItem ==
    Table([ts \in TokenSeqs |->
        \E n \in 1..Len(next_item_patterns) :
            ReSearch(next_item_patterns[n], Lower(StripText[ts]))])

\* one of the next-major-section patterns is found in the text
MatchesNextMajor ==
    Table([ts \in TokenSeqs |->
        \E n \in 1..Len(next_major_patterns) :
            ReMatch(next_major_patterns[n], StripText[ts])])

\* "Skip very short snippets": len(text) > 10
MinContentLen == 10

\* the text passes the filters of extract_item1a_content
KeepsContent ==
    Table([ts \in TokenSeqs |->
        LET t == SepText[ts]
        IN  /\ t # <<>>
            /\ Len(t) > MinContentLen
            /\ ~IsPageNumber(t)
            /\ ~Contains(t, TableOfContents)])

--------------------------------------------------------------------------
(* Navigation in the tree *)

Tags == 1..Len(soup)

RECURSIVE Ancestors(_, _)
Ancestors(d, i) ==
    IF d[i].parent = 0 THEN {} ELSE {d[i].parent} \cup Ancestors(d, d[i].parent)

\* j lies in the subtree of i; 0 is the BeautifulSoup object, the root
InSubtree(d, i, j) == i = 0 \/ j = i \/ i \in Ancestors(d, j)

\* the tags of the subtree of i that hold a string, in document order
StringsOf(d, i) ==
    SelectSeq([j \in 1..Len(d) |-> j], LAMBDA j : InSubtree(d, i, j) /\ d[j].str # "")

\* the text of tag i, as the strings it is made of
TokensOf(d, i) == LET own == StringsOf(d, i) IN [k \in 1..Len(own) |-> d[own[k]].str]

\* element.find_next(): the next tag in document order (0: None)
find_next(d, i) == IF i < Len(d) THEN i + 1 ELSE 0

--------------------------------------------------------------------------
(* score_candidate *)

HeadingTags == {"h1", "h2", "h3", "h4", "h5", "h6"}

\* len(element_text) <= len(text) + 15
StandaloneSlack == 15

StandaloneBonus(d, i, txt) ==
    IF TextLen[TokensOf(d, i)] <= TextLen[txt] + StandaloneSlack THEN 50 ELSE 0

TagBonus(d, i) ==
    (IF d[i].tag \in HeadingTags THEN 30 ELSE 0)
    + (IF d[i].tag \in {"p", "div"} THEN 20 ELSE 0)
    - (IF d[i].tag \in {"b", "strong", "span", "i", "em"} THEN 20 ELSE 0)

OwnReferencePenalty(d, i) ==
    IF HasReferenceIndicator[TokensOf(d, i)] THEN 100 ELSE 0

\* "Only check if parent is reasonably sized": len(parent_text) < 500
ParentMaxLen == 500

\* the parent's text is never looked at
ParentReferencePenaltyMissing(d, i) == 0
\* element.parent is a tag or the BeautifulSoup object, never None
ParentReferencePenalty(d, i) ==
    LET parent_text == TokensOf(d, d[i].parent)
    IN  IF TextLen[parent_text] < ParentMaxLen /\ HasReferenceIndicator[parent_text]
        THEN 80 ELSE 0

\* the lookahead loop: while current and count < 20 and chars_collected < 2000
LookaheadMaxTags == 20
LookaheadMaxChars == 2000
\* len(next_text) > 10
MinLookaheadLen == 10

RECURSIVE LookaheadFrom(_, _, _, _)
LookaheadFrom(d, current, count, got) ==
    IF current # 0 /\ count < LookaheadMaxTags /\ got.chars < LookaheadMaxChars
    THEN LET next_text == TokensOf(d, current)
             take == /\ d[current].tag \in {"p", "div", "span", "td"}
                     /\ next_text # <<>>
                     /\ TextLen[next_text] > MinLookaheadLen
         IN  LookaheadFrom(d, find_next(d, current), count + 1,
                 IF take
                 THEN [content |-> Append(got.content, next_text),
                       chars |-> got.chars + TextLen[next_text]]
                 ELSE got)
    ELSE got

Lookahead(d, i) == LookaheadFrom(d, find_next(d, i), 0, [content |-> <<>>, chars |-> 0])

\* combined_next is the collected texts joined by a space and lower-cased.
\* A keyword or next-item pattern is found in it iff it is found in one of
\* the collected texts: no text of the vocabulary ends with the beginning of
\* a keyword or pattern that goes on behind a space.
LookaheadBonus(d, i) ==
    LET got == Lookahead(d, i)
        found == UNION {RiskKeywordsIn[got.content[k]] : k \in 1..Len(got.content)}
    IN  Cardinality(found) * 5
        + (IF got.chars > 1000 THEN 30 ELSE IF got.chars > 500 THEN 15 ELSE 0)
        + (IF \E k \in 1..Len(got.content) : HasNextItem[got.content[k]] THEN 20 ELSE 0)

score_candidate(d, i, txt) ==
    StandaloneBonus(d, i, txt) + TagBonus(d, i)
    - OwnReferencePenalty(d, i) - ParentReferencePenalty(d, i)
    + LookaheadBonus(d, i)

--------------------------------------------------------------------------
(* find_all_item1a_candidates, find_item1a_start *)

\* soup.find_all([...]): the tags searched for the heading
CandidateTags == {"p", "div", "h1", "h2", "h3", "h4", "h5", "h6", "span", "td"}

IsCandidate(d, i) == d[i].tag \in CandidateTags /\ MatchesItem1a[TokensOf(d, i)]

\* list.sort(key=score, reverse=True) is stable: x goes behind the entries
\* whose score is at least its own
InsertByScore(sorted, x) ==
    LET ahead == Cardinality({k \in 1..Len(sorted) : sorted[k].score >= x.score})
    IN  SubSeq(sorted, 1, ahead) \o <<x>> \o SubSeq(sorted, ahead + 1, Len(sorted))

RECURSIVE SortByScore(_)
SortByScore(cands) ==
    IF cands = <<>> THEN <<>>
    ELSE InsertByScore(SortByScore(SubSeq(cands, 1, Len(cands) - 1)), cands[Len(cands)])

find_all_item1a_candidates(d) ==
    LET matching == SelectSeq([i \in 1..Len(d) |-> i], LAMBDA i : IsCandidate(d, i))
    IN  SortByScore([k \in 1..Len(matching) |->
            [score |-> score_candidate(d, matching[k], TokensOf(d, matching[k])),
             element |-> matching[k]]])

\* the best candidate accepted with a score of 0
find_item1a_start_accepting_zero(d) ==
    LET candidates == find_all_item1a_candidates(d)
    IN  IF candidates = <<>> THEN 0
        ELSE IF candidates[1].score >= 0 THEN candidates[1].element ELSE 0
find_item1a_start(d) ==
    LET candidates == find_all_item1a_candidates(d)
    IN  IF candidates = <<>> THEN 0
        ELSE IF candidates[1].score > 0 THEN candidates[1].element ELSE 0

--------------------------------------------------------------------------
(* find_next_major_section *)

EndTags == {"p", "div", "span", "td", "h1", "h2", "h3", "h4", "h5", "h6"}

IsNextMajor(d, j) == d[j].tag \in EndTags /\ MatchesNextMajor[TokensOf(d, j)]

find_next_major_section(d, element) ==
    IF \E j \in (element + 1)..Len(d) : IsNextMajor(d, j)
    THEN CHOOSE j \in (element + 1)..Len(d) :
            /\ IsNextMajor(d, j)
            /\ \A k \in (element + 1)..(j - 1) : ~IsNextMajor(d, k)
    ELSE 0

--------------------------------------------------------------------------
(* extract_item1a_content *)

ContentTags == {"p", "div", "span", "td", "li"}

\* the walk from start_element.find_next() to end_element (current !=
\* end_element compares the tags' contents; a tag before end_element with the
\* contents of end_element would have been returned as end_element itself)
WalkedTags(d, start, end) ==
    SelectSeq([j \in 1..Len(d) |-> j],
              LAMBDA j : j > start /\ (end = 0 \/ j < end))

\* content_parts, as the tags whose text was appended
ContentPartsOf(d, start, end) ==
    SelectSeq(WalkedTags(d, start, end),
              LAMBDA j : d[j].tag \in ContentTags /\ KeepsContent[TokensOf(d, j)])

\* clean_text(' '.join(content_parts))
FullText(d, parts) ==
    clean_text(Join([k \in 1..Len(parts) |-> SepText[TokensOf(d, parts[k])]], <<" ">>))

--------------------------------------------------------------------------
(* Idle values of the variables a specification does not use *)

TextIdle ==
    /\ raw = <<>> /\ text = <<>> /\ prev = <<>> /\ cleans = 0
    /\ sentences = <<>> /\ output_text = <<>> /\ tpc = "idle"

DocIdle ==
    /\ soup = <<>> /\ start_element = 0 /\ end_element = 0
    /\ content_parts = <<>> /\ report = "" /\ dpc = "idle"

BatchIdle ==
    /\ input_dir_exists = FALSE /\ html_files = <<>> /\ next_file = 1
    /\ success_count = 0 /\ attempts = <<>> /\ written = {}
    /\ summary = -1 /\ bpc = "idle"

--------------------------------------------------------------------------
(* The text pipeline: clean_text and split_into_sentences on texts that    *)
(* are concatenations of at most MaxAtoms atoms, and on two fixed texts.   *)

TextAtoms ==
    { <<"R", "i", "s", "k", ".">>,
      <<"W", "h", "y", "?">>,
      <<"m", "a", "y">>,
      <<" ">>, <<"\t">>, <<"\n">>, <<NBSP>>,
      <<"U+2022">>, <<"U+25AA">> }

\* "Risk. <bullet> Why? <bullet> Risk.": the shape of the text of the
\* specification's scenario C
ScenarioBullets ==
    <<"R", "i", "s", "k", ".", " ", "U+2022", " ", "W", "h", "y", "?", " ",
      "U+00B7", " ", "R", "i", "s", "k", ".">>

\* "Risk. Why? may Risk!": terminal marks before upper and lower case
ScenarioTerminals ==
    <<"R", "i", "s", "k", ".", " ", "W", "h", "y", "?", " ", "m", "a", "y",
      " ", "R", "i", "s", "k", "!">>

InitText ==
    /\ \/ \E n \in 0..MaxAtoms : \E atoms \in [1..n -> TextAtoms] : raw = Flatten(atoms)
       \/ raw \in {ScenarioBullets, ScenarioTerminals}
    /\ text = raw
    /\ prev = <<>>
    /\ cleans = 0
    /\ sentences = <<>>
    /\ output_text = <<>>
    /\ tpc = "text"
    /\ DocIdle /\ BatchIdle

\* a call of clean_text on the current text
CleanText ==
    /\ tpc = "text"
    /\ cleans < 2
    /\ prev' = text
    /\ text' = clean_text(text)
    /\ cleans' = cleans + 1
    /\ UNCHANGED <<raw, sentences, output_text, tpc, docVars, batchVars>>

\* a call of split_into_sentences on the current text
SplitIntoSentences ==
    /\ tpc = "text"
    /\ sentences' = split_into_sentences(text)
    /\ tpc' = "split"
    /\ UNCHANGED <<raw, text, prev, cleans, output_text, docVars, batchVars>>

NextText == CleanText \/ SplitIntoSentences

SpecText == InitText /\ [][NextText]_vars

--------------------------------------------------------------------------
(* The output pipeline: the texts hold apostrophes and backslashes, and    *)
(* the sentences split off them are serialised by format_output.           *)

OutputAtoms ==
    { <<"R", "i", "s", "k", ".">>,
      <<"I", "t", "'", "s">>,
      <<"C", ":", "\\">>,
      <<"'">>, <<"\\">>, <<" ">>, <<"U+2022">> }

InitOutput ==
    /\ \E n \in 0..MaxAtoms : \E atoms \in [1..n -> OutputAtoms] : raw = Flatten(atoms)
    /\ text = raw
    /\ prev = <<>>
    /\ cleans = 0
    /\ sentences = <<>>
    /\ output_text = <<>>
    /\ tpc = "text"
    /\ DocIdle /\ BatchIdle

\* process_file: "if not sentences: return False", else format_output
FormatOutput ==
    /\ tpc = "split"
    /\ sentences # <<>>
    /\ output_text' = format_output(sentences)
    /\ tpc' = "formatted"
    /\ UNCHANGED <<raw, text, prev, cleans, sentences, docVars, batchVars>>

NextOutput == CleanText \/ SplitIntoSentences \/ FormatOutput

SpecOutput == InitOutput /\ [][NextOutput]_vars

--------------------------------------------------------------------------
(* One document through process_file.  The documents are the trees of at   *)
(* most MaxNodes tags, each tag one of NodeKinds.                          *)

NodeKinds ==
    { [tag |-> "h2", str |-> "HEAD"],
      [tag |-> "span", str |-> "HEAD"],
      [tag |-> "p", str |-> "SEE"],
      [tag |-> "p", str |-> "RISK"],
      [tag |-> "div", str |-> ""],
      [tag |-> "p", str |-> "E1B"],
      [tag |-> "p", str |-> "E2"],
      [tag |-> "li", str |-> "LIST"] }

RECURSIVE AncestorsIn(_, _)
AncestorsIn(shape, i) ==
    IF shape[i] = 0 THEN {} ELSE {shape[i]} \cup AncestorsIn(shape, shape[i])

\* the trees of n tags, as the parent of each tag: a tag is a child of the
\* root, of the tag before it or of one of that tag's ancestors
Shapes(n) ==
    { shape \in [1..n -> 0..(n - 1)] :
        /\ \A i \in 1..n : shape[i] < i
        /\ \A i \in 2..n : shape[i] \in {0, i - 1} \cup AncestorsIn(shape, i - 1) }

NotFoundMessage == "Could not find Item 1A section"
NoSentencesMessage == "No sentences extracted"
ExtractedMessage == "Extracted sentences"

InitDoc ==
    /\ \E n \in 0..MaxNodes : \E shape \in Shapes(n) : \E kinds \in [1..n -> NodeKinds] :
            soup = [i \in 1..n |->
                       [tag |-> kinds[i].tag, str |-> kinds[i].str, parent |-> shape[i]]]
    /\ start_element = 0
    /\ end_element = 0
    /\ content_parts = <<>>
    /\ report = ""
    /\ dpc = "parsed"
    /\ TextIdle /\ BatchIdle

\* extract_item1a_content(soup); text is item1a_text, <<>> for None and ''
ExtractItem1aContent ==
    /\ dpc = "parsed"
    /\ LET start == find_item1a_start(soup)
           end == IF start = 0 THEN 0 ELSE find_next_major_section(soup, start)
           parts == IF start = 0 THEN <<>> ELSE ContentPartsOf(soup, start, end)
       IN  /\ start_element' = start
           /\ end_element' = end
           /\ content_parts' = parts
           /\ text' = IF start = 0 THEN <<>> ELSE FullText(soup, parts)
    /\ dpc' = "extracted"
    /\ UNCHANGED <<soup, report, raw, prev, cleans, sentences, output_text, tpc,
                   batchVars>>

\* the rest of process_file: "if not item1a_text", split_into_sentences,
\* "if not sentences", format_output
ProcessFile ==
    /\ dpc = "extracted"
    /\ IF text = <<>>
       THEN /\ report' = NotFoundMessage
            /\ UNCHANGED <<sentences, output_text>>
       ELSE LET sents == split_into_sentences(text)
            IN  /\ sentences' = sents
                /\ IF sents = <<>>
                   THEN report' = NoSentencesMessage /\ UNCHANGED output_text
                   ELSE report' = ExtractedMessage
                        /\ output_text' = format_output(sents)
    /\ dpc' = "done"
    /\ UNCHANGED <<soup, start_element, end_element, content_parts, raw, text,
                   prev, cleans, tpc, batchVars>>

NextDoc == ExtractItem1aContent \/ ProcessFile

SpecDoc == InitDoc /\ [][NextDoc]_vars

--------------------------------------------------------------------------
(* The batch driver.  A discovered document is named by what happens to it *)
(* in process_file.                                                        *)

DocumentKinds ==
    { "read_error",     \* open() or f.read() raises
      "parse_error",    \* BeautifulSoup or extract_item1a_content raises
      "no_section",     \* "if not item1a_text: return False"
      "no_sentences",   \* "if not sentences: return False"
      "write_error",    \* open(output_file, 'w') raises
      "ok" }

RaisingKinds == {"read_error", "parse_error", "write_error"}

\* process_file with no try/except around its body
process_file_without_except(document) ==
    [result |-> document = "ok", wrote |-> document = "ok",
     raised |-> document \in RaisingKinds]
\* process_file: what it returns, whether it wrote the output file, and
\* whether an exception leaves it ("except Exception" catches them all)
process_file(document) ==
    [result |-> document = "ok", wrote |-> document = "ok", raised |-> FALSE]

InitBatch ==
    /\ input_dir_exists \in BOOLEAN
    /\ \E n \in 0..(IF input_dir_exists THEN MaxFiles ELSE 0) :
            html_files \in [1..n -> DocumentKinds]
    /\ next_file = 1
    /\ success_count = 0
    /\ attempts = [i \in 1..Len(html_files) |-> 0]
    /\ written = {}
    /\ summary = -1
    /\ bpc = "start"
    /\ TextIdle /\ DocIdle

\* main up to the loop: the two early returns
MainStart ==
    /\ bpc = "start"
    /\ bpc' = IF ~input_dir_exists \/ html_files = <<>> THEN "returned" ELSE "loop"
    /\ UNCHANGED <<input_dir_exists, html_files, next_file, success_count,
                   attempts, written, summary, textVars, docVars>>

\* one round of "for html_file in html_files"; an exception that leaves
\* process_file ends main before the summary
MainProcessFile ==
    /\ bpc = "loop"
    /\ next_file <= Len(html_files)
    /\ LET done == process_file(html_files[next_file])
       IN  /\ attempts' = [attempts EXCEPT ![next_file] = @ + 1]
           /\ written' = IF done.wrote THEN written \cup {next_file} ELSE written
           /\ IF done.raised
              THEN bpc' = "crashed" /\ UNCHANGED <<success_count, next_file>>
              ELSE /\ success_count' = IF done.result THEN success_count + 1
                                       ELSE success_count
                   /\ next_file' = next_file + 1
                   /\ UNCHANGED bpc
    /\ UNCHANGED <<input_dir_exists, html_files, summary, textVars, docVars>>

\* the final summary: "Successfully processed: {success_count}/{len} files"
MainSummary ==
    /\ bpc = "loop"
    /\ next_file > Len(html_files)
    /\ summary' = success_count
    /\ bpc' = "done"
    /\ UNCHANGED <<input_dir_exists, html_files, next_file, success_count,
                   attempts, written, textVars, docVars>>

NextBatch == MainStart \/ MainProcessFile \/ MainSummary

\* main runs on its own thread to its end: a step that can be taken is taken
SpecBatch == InitBatch /\ [][NextBatch]_vars /\ WF_vars(NextBatch)

--------------------------------------------------------------------------
(* Properties of the text pipeline *)

\* C9: clean_text is idempotent: a second call of clean_text returns the
\* text the first call returned.
C9_CleanTextIdempotent == cleans >= 2 => text = prev

\* C9 witness: a text with a tab, a newline and a non-breaking space, which
\* the first call changed, has been cleaned twice.
C9_Witness ==
    /\ cleans = 2
    /\ {NBSP, "\n", "\t"} \subseteq Chars(raw)
    /\ text # raw /\ text # <<>>

\* C7: every entry of the list returned by split_into_sentences is longer
\* than 3 characters after trimming, neither starts nor ends with
\* whitespace, and holds no non-breaking space when the text split was
\* normalised by clean_text.
C7_SentencesTrimmed ==
    tpc = "split" =>
        \A k \in 1..Len(sentences) :
            LET sent == sentences[k]
            IN  /\ Len(Strip(sent)) > 3
                /\ sent # <<>>
                /\ ~StrSpace(sent[1]) /\ ~StrSpace(sent[Len(sent)])
                /\ (cleans >= 1 => NBSP \notin Chars(sent))

\* C7 witness: a normalised text whose source began with whitespace and held
\* non-breaking spaces has been split into at least two sentences.
C7_Witness ==
    /\ tpc = "split" /\ cleans >= 1
    /\ Len(sentences) >= 2
    /\ NBSP \in Chars(raw)
    /\ raw # <<>> /\ StrSpace(raw[1])

\* The cuts the specification names, read off the text in one pass: index i
\* is cut away iff it holds a bullet glyph, or lies in a whitespace run that
\* starts right behind a terminal mark and ends right before an upper-case
\* letter.
CutAway(t, i) ==
    \/ t[i] \in BulletGlyphs
    \/ /\ ReSpace(t[i])
       /\ \E a \in 2..i :
            /\ t[a - 1] \in Terminal
            /\ \A k \in a..i : ReSpace(t[k])
       /\ \E b \in i..(Len(t) - 1) :
            /\ t[b + 1] \in UpperAZ
            /\ \A k \in i..b : ReSpace(t[k])

\* the maximal runs of indices that are not cut away, as <<first, last>>
KeptRuns(t) ==
    { r \in (1..Len(t)) \X (1..Len(t)) :
        /\ r[1] <= r[2]
        /\ \A k \in r[1]..r[2] : ~CutAway(t, k)
        /\ (r[1] = 1 \/ CutAway(t, r[1] - 1))
        /\ (r[2] = Len(t) \/ CutAway(t, r[2] + 1)) }

\* the runs in text order: the n-th is the one with n - 1 runs before it
RunsInOrder(t) ==
    LET runs == KeptRuns(t)
    IN  [n \in 1..Cardinality(runs) |->
            CHOOSE r \in runs : Cardinality({q \in runs : q[1] < r[1]}) = n - 1]

SpecifiedSentences(t) ==
    LET runs == RunsInOrder(t)
        trimmed == [n \in 1..Len(runs) |-> Strip(SubSeq(t, runs[n][1], runs[n][2]))]
    IN  SelectSeq(trimmed, LAMBDA p : Len(p) > 3)

\* C10: split_into_sentences cuts the text at every bullet glyph and at
\* every terminal mark followed by whitespace and an upper-case letter (a
\* terminal mark at the end of a segment ends the last piece), nowhere else,
\* never at a terminal mark followed by lower-case text, and returns the
\* pieces trimmed, those longer than 3 characters, in text order.
C10_SplitAtSpecifiedBoundaries ==
    tpc = "split" => sentences = SpecifiedSentences(text)

\* C10 witness: the text "Risk. <bullet> Why? <bullet> Risk." has been split
\* into its three sentences, in order.
C10_Witness ==
    /\ tpc = "split"
    /\ text = ScenarioBullets
    /\ sentences = << <<"R", "i", "s", "k", ".">>,
                      <<"W", "h", "y", "?">>,
                      <<"R", "i", "s", "k", ".">> >>

--------------------------------------------------------------------------
(* Round trip of the output literal *)

\* The inverse of the escaping rule: the literal is read entry by entry from
\* index i on; inside an entry a backslash followed by an apostrophe is an
\* apostrophe, any other apostrophe closes the entry; between two entries
\* stands ", '"; "]" behind an entry ends the literal.  A literal of any
\* other form has no parse.
NoParse == [ok |-> FALSE, entries |-> <<>>]

RECURSIVE ParseEntries(_, _, _, _)
ParseEntries(s, i, cur, done) ==
    IF i > Len(s) THEN NoParse
    ELSE IF s[i] = "\\" /\ i < Len(s) /\ s[i + 1] = "'"
         THEN ParseEntries(s, i + 2, Append(cur, "'"), done)
    ELSE IF s[i] = "'"
         THEN IF SubSeq(s, i + 1, Len(s)) = <<"]">>
              THEN [ok |-> TRUE, entries |-> Append(done, cur)]
              ELSE IF HasAt(s, i + 1, <<",", " ", "'">>)
                   THEN ParseEntries(s, i + 4, <<>>, Append(done, cur))
                   ELSE NoParse
    ELSE ParseEntries(s, i + 1, Append(cur, s[i]), done)

ParseLiteral(s) ==
    IF HasAt(s, 1, <<"[", "'">>) THEN ParseEntries(s, 3, <<>>, <<>>) ELSE NoParse

\* C6: re-parsing the literal written by format_output by the inverse of the
\* escaping rule gives back the sentence list: as many entries, each with
\* the sentence's characters.
C6_RoundTrip ==
    tpc = "formatted" =>
        /\ ParseLiteral(output_text).ok
        /\ ParseLiteral(output_text).entries = sentences

--------------------------------------------------------------------------
(* Properties of the section locator and the content extractor *)

Extracted == dpc \in {"extracted", "done"}

Candidates == {i \in Tags : IsCandidate(soup, i)}

Score(i) == score_candidate(soup, i, TokensOf(soup, i))

\* C1: find_item1a_start returns tag n iff n is a heading candidate, no
\* candidate scores higher, every earlier candidate scores lower, and n's
\* score is positive; it returns None iff there is no candidate or no
\* candidate scores above 0.
C1_FindStart ==
    Extracted =>
        LET score == Table([i \in Candidates |-> Score(i)])
        IN  /\ start_element \in {0} \cup Tags
            /\ \A n \in Tags :
                start_element = n <=>
                    /\ n \in Candidates
                    /\ \A j \in Candidates : score[j] <= score[n]
                    /\ \A j \in Candidates : j < n => score[j] < score[n]
                    /\ score[n] > 0
            /\ start_element = 0 <=> \A j \in Candidates : score[j] <= 0

\* C1 witness: of two candidates with the same, highest score the earlier
\* one has been returned, a third candidate scoring lower.
C1_Witness ==
    /\ Extracted
    /\ start_element # 0
    /\ \E j \in Candidates : j > start_element /\ Score(j) = Score(start_element)
    /\ \E j \in Candidates : Score(j) < Score(start_element)

\* the candidate's own text, or its parent's text when that is shorter than
\* 500 characters, holds a cross-reference phrase
CrossReferenced(i) ==
    \/ HasReferenceIndicator[TokensOf(soup, i)]
    \/ LET parent_text == TokensOf(soup, soup[i].parent)
       IN  TextLen[parent_text] < ParentMaxLen /\ HasReferenceIndicator[parent_text]

\* C2 as claimed: when every heading candidate is cross-referenced, no
\* candidate scores above 0, whatever its tag and its lookahead content,
\* and find_item1a_start returns None.
C2_CrossReferencedNeverFound ==
    (Extracted /\ \A i \in Candidates : CrossReferenced(i)) =>
        /\ \A i \in Candidates : Score(i) <= 0
        /\ start_element = 0

\* C2 amended: a cross-referenced candidate scores at most what its
\* lookahead content earns it; when every candidate is cross-referenced and
\* no lookahead earns anything, no candidate scores above 0 and
\* find_item1a_start returns None.
C2_CrossReferencedWithoutLookahead ==
    Extracted =>
        LET score == Table([i \in Candidates |-> Score(i)])
            lookahead == Table([i \in Candidates |-> LookaheadBonus(soup, i)])
        IN  /\ \A i \in Candidates : CrossReferenced(i) => score[i] <= lookahead[i]
            /\ (\A i \in Candidates : CrossReferenced(i) /\ lookahead[i] = 0)
                => /\ \A i \in Candidates : score[i] <= 0
                   /\ start_element = 0

\* C2 witness: the one candidate, a heading tag in a paragraph that holds
\* "see", with nothing behind it, scored exactly 0 and was not returned.
C2_Witness ==
    /\ Extracted
    /\ Candidates # {}
    /\ \A i \in Candidates :
        /\ CrossReferenced(i) /\ LookaheadBonus(soup, i) = 0
        /\ soup[i].tag = "h2" /\ Score(i) = 0
    /\ start_element = 0

\* C3: process_file reports "section not found" exactly when no candidate
\* scored above 0, and "no sentences extracted" whenever a start heading
\* was found and no sentence survived, also when no text survived between
\* the boundaries.
C3_FailureKindsDistinguished ==
    dpc = "done" =>
        /\ report = NotFoundMessage <=> \A j \in Candidates : Score(j) <= 0
        /\ (start_element # 0 /\ sentences = <<>>) => report = NoSentencesMessage

\* C4: every string of the extracted section belongs to a tag strictly
\* behind the start tag and outside it, and strictly before the end tag.
C4_OnlyTextBetweenBoundaries ==
    (Extracted /\ start_element # 0) =>
        \A k \in 1..Len(content_parts) :
            LET owners == StringsOf(soup, content_parts[k])
            IN  \A o \in 1..Len(owners) :
                    /\ owners[o] > start_element
                    /\ ~InSubtree(soup, start_element, owners[o])
                    /\ end_element # 0 => owners[o] < end_element

\* "ITEM 2" at the beginning of a text, whatever stands behind the "2"
Item2StartBare == Ws \o Lit(<<"I", "T", "E", "M">>) \o Ws \o Lit(<<"2">>)

\* the text begins, ignoring case, with "ITEM 1B", or with "ITEM 2" and no
\* digit behind the "2"
BeginsNextMajorHeading ==
    Table([ts \in TokenSeqs |->
        LET t == StripText[ts]
            behind == SkipReSpace(t, SkipReSpace(t, 1) + 4) + 1
        IN  \/ ReMatch(Item1bStart, t)
            \/ /\ ReMatch(Item2StartBare, t)
               /\ behind > Len(t) \/ t[behind] \notin Digits])

IsSpecifiedEnd(j) ==
    soup[j].tag \in EndTags /\ BeginsNextMajorHeading[TokensOf(soup, j)]

\* C5: find_next_major_section returns the first tag behind the start tag,
\* among the inspected tags, whose text begins with "ITEM 1B" or with
\* "ITEM 2" not followed by a digit, and None only if there is none; the
\* tag it returns lies behind the start tag.
C5_FindEnd ==
    (Extracted /\ start_element # 0) =>
        /\ \A j \in Tags :
            end_element = j <=>
                /\ j > start_element
                /\ IsSpecifiedEnd(j)
                /\ \A k \in (start_element + 1)..(j - 1) : ~IsSpecifiedEnd(k)
        /\ end_element = 0 <=>
                \A j \in (start_element + 1)..Len(soup) : ~IsSpecifiedEnd(j)
        /\ end_element # 0 => end_element > start_element

--------------------------------------------------------------------------
(* Properties of the batch driver *)

Succeeded == {i \in 1..Len(html_files) : html_files[i] = "ok"}

==========================================================================
